---- MODULE Spec2Model ----
(***************************************************************************)
(* State-machine model of src/main.py: the MusicAPI aggregation component  *)
(* (session lifecycle, provider adapters) and the lyrics command (query    *)
(* parsing, lyrics chunking).                                              *)
(*                                                                         *)
(* Python values are tagged records [t |-> <type>, v |-> <payload>];       *)
(* a call's outcome is [exc |-> <exception name or "none">, val |-> ...].  *)
(* Python strings are TLA+ strings, split and sliced with Len and SubSeq.   *)
(***************************************************************************)
EXTENDS Integers, Sequences, FiniteSets, TLC

VARIABLES
    session,     \* MusicAPI.session: 0 is None, else the index of a pool in pools
    pools,       \* every ClientSession allocated so far; pools[i] is its .closed flag
    apiKey,      \* whether LASTFM_API_KEY is set in the environment
    pc,          \* per task: position of the adapter coroutine
    op,          \* per task: the adapter operation running
    sessAtGet,   \* per task: state of self.session when session.get was invoked
    reqPool,     \* per task: the pool carrying the in-flight request
    answer,      \* per task: what the provider will do with the request
    outcome,     \* per task: what the adapter returned (or raised)
    cpc,         \* lyrics command: position of the coroutine
    query,       \* lyrics command: its query argument
    artist,      \* lyrics command: local variable artist
    title,       \* lyrics command: local variable title
    lyrics,      \* lyrics command: local variable lyrics
    chunks,      \* lyrics command: the chunks still to send
    sent         \* lyrics command: the messages passed to ctx.send, in order

cmdVars == <<cpc, query, artist, title, lyrics, chunks, sent>>
vars == <<session, pools, apiKey, pc, op, sessAtGet, reqPool, answer, outcome, cmdVars>>

----------------------------------------------------------------------------
(* Bounds *)
NumTasks == 2
MaxPools == 2
MaxTokens == 3
Window == 5

Tasks == 1..NumTasks

----------------------------------------------------------------------------
(* Python / JSON values *)

PyNone == [t |-> "null"]
JBool(b) == [t |-> "bool", v |-> b]
JNum(n) == [t |-> "number", v |-> n]
JStr(x) == [t |-> "string", v |-> x]
JArr(a) == [t |-> "array", v |-> a]
JObj(f) == [t |-> "object", v |-> f]

\* A body that response.json() cannot decode (it raises)
Malformed == [t |-> "malformed"]
\* Marks a key that an object does not have
Absent == [t |-> "absent"]

\* The object with the keys of c whose value is not Absent
Build(c) == JObj([k \in {j \in DOMAIN c : c[j] # Absent} |-> c[k]])

EmptyObj == JObj(<<>>)

Ok(v) == [exc |-> "none", val |-> v]
Raise(e) == [exc |-> e, val |-> PyNone]

\* Python truth value of x
Truthy(x) ==
    CASE x.t = "null" -> FALSE
      [] x.t = "bool" -> x.v
      [] x.t = "number" -> x.v # 0
      [] x.t = "string" -> x.v # ""
      [] x.t = "array" -> Len(x.v) > 0
      [] x.t = "object" -> DOMAIN x.v # {}

\* `k in d` is defined for containers only (TypeError for None, bool, number)
SupportsIn(d) == d.t \in {"object", "array"}

\* `k in d`: key membership for a dict, element membership for a list
In(k, d) ==
    IF d.t = "object"
    THEN k \in DOMAIN d.v
    ELSE \E i \in DOMAIN d.v : d.v[i] = JStr(k)

\* d.get(k, default) on a dict d
Get(d, k, default) == IF k \in DOMAIN d.v THEN d.v[k] ELSE default

\* str(x), as an f-string formats x
PyStr(x) ==
    CASE x.t = "string" -> x.v
      [] x.t = "null" -> "None"
      [] x.t = "number" -> ToString(x.v)
      [] x.t = "bool" -> IF x.v THEN "True" ELSE "False"

Min(a, b) == IF a <= b THEN a ELSE b

\* s[:n] on a list
Head_n(s, n) == SubSeq(s, 1, Min(n, Len(s)))

----------------------------------------------------------------------------
(* Provider responses *)

Timeout == [kind |-> "timeout", status |-> 0, body |-> Malformed]
ConnError == [kind |-> "error", status |-> 0, body |-> Malformed]
Http(st, b) == [kind |-> "http", status |-> st, body |-> b]

----------------------------------------------------------------------------
(* Provider adapters: what each returns for the response its GET receives *)

HttpOk == 200
MsPerSecond == 1000
MaxTags == 3
MaxTrending == 10

\* The exception, if any, raised inside `async with self.session.get(...)`
\* up to and including `await response.json()`; "none" when a body was parsed
TransportExc(resp) ==
    CASE resp.kind = "timeout" -> "TimeoutError"
      [] resp.kind = "error" -> "ClientError"
      [] resp.kind = "http" ->
           IF resp.status = HttpOk /\ resp.body = Malformed
           THEN "ContentTypeError"
           ELSE "none"

\* fetch_json: the parsed body on status 200, None on any other status and on
\* every exception (both except clauses return None)
fetch_json(resp) ==
    IF TransportExc(resp) # "none"
    THEN Ok(PyNone)
    ELSE IF resp.status = HttpOk
         THEN Ok(resp.body)
         ELSE Ok(PyNone)

\* get_lyrics: no try block of its own around the tests on data
get_lyrics(resp) ==
    LET data == fetch_json(resp).val
    IN  IF ~Truthy(data) THEN Ok(PyNone)
        ELSE IF ~SupportsIn(data) THEN Raise("TypeError")
        ELSE IF In("lyrics", data)
             THEN IF data.t = "object" THEN Ok(data.v["lyrics"]) ELSE Raise("TypeError")
        ELSE IF In("error", data)
             THEN IF data.t = "object"
                  THEN Ok(JStr("Error: " \o PyStr(data.v["error"])))
                  ELSE Raise("TypeError")
        ELSE Ok(PyNone)

\* _format_track(recording), recording a dict
format_track(recording) ==
    LET hasRel == In("releases", recording) /\ Truthy(recording.v["releases"])
        release == recording.v["releases"].v[1]
        album == IF hasRel THEN Get(release, "title", JStr("Unknown Album"))
                 ELSE JStr("Unknown Album")
        release_date == IF hasRel /\ In("date", release)
                        THEN " (" \o PyStr(release.v["date"]) \o ")"
                        ELSE ""
        credit == Get(recording, "artist-credit", JArr(<<EmptyObj>>))
        length == Get(recording, "length", JNum(0))
        tags == Get(recording, "tags", JArr(<<>>))
        first == Head_n(tags.v, MaxTags)
    IN  IF credit.t # "array" THEN Raise("TypeError")
        ELSE IF Len(credit.v) = 0 THEN Raise("IndexError")
        ELSE IF length.t # "number" THEN Raise("TypeError")
        ELSE IF ~In("id", recording) THEN Raise("KeyError")
        ELSE IF tags.t # "array" THEN Raise("TypeError")
        ELSE IF \E i \in DOMAIN first : ~In("name", first[i]) THEN Raise("KeyError")
        ELSE Ok(JObj([title |-> Get(recording, "title", JStr("Unknown Track")),
                      artist |-> Get(credit.v[1], "name", JStr("Unknown Artist")),
                      album |-> JStr(PyStr(album) \o release_date),
                      duration |-> JNum(length.v \div MsPerSecond),
                      url |-> JStr("https://musicbrainz.org/recording/"
                                     \o PyStr(recording.v["id"])),
                      tags |-> JArr([i \in DOMAIN first |-> first[i].v["name"]])]))

\* search_track: everything after create_session runs inside try/except
\* Exception, and the function ends with `return None`
search_track(resp) ==
    IF TransportExc(resp) # "none" \/ resp.status # HttpOk THEN Ok(PyNone)
    ELSE LET data == resp.body
         IN  IF data.t # "object" THEN Ok(PyNone)
             ELSE LET recs == Get(data, "recordings", PyNone)
                  IN  IF ~Truthy(recs) THEN Ok(PyNone)
                      ELSE IF format_track(recs.v[1]).exc # "none" THEN Ok(PyNone)
                      ELSE format_track(recs.v[1])

\* get_trending: data.get('tracks', {}).get('data', [])[:10], [] on any failure
get_trending(resp) ==
    IF TransportExc(resp) # "none" \/ resp.status # HttpOk THEN Ok(JArr(<<>>))
    ELSE LET data == resp.body
             tracks == Get(data, "tracks", EmptyObj)
             lst == Get(tracks, "data", JArr(<<>>))
         IN  IF data.t # "object" THEN Ok(JArr(<<>>))
             ELSE IF tracks.t # "object" THEN Ok(JArr(<<>>))
             ELSE IF lst.t # "array" THEN Ok(JArr(<<>>))
             ELSE Ok(JArr(Head_n(lst.v, MaxTrending)))

\* The list data.get('tracks', {}).get('track', []) of the two tag adapters,
\* or Absent when evaluating it (or iterating over it) raises
TagTracks(resp) ==
    IF TransportExc(resp) # "none" \/ resp.status # HttpOk THEN Absent
    ELSE LET data == resp.body
             tracks == Get(data, "tracks", EmptyObj)
             lst == Get(tracks, "track", JArr(<<>>))
         IN  IF data.t # "object" THEN Absent
             ELSE IF tracks.t # "object" THEN Absent
             ELSE IF lst.t # "array" THEN Absent
             ELSE lst

\* get_recommendations: [track['name'] for track in ...], [] on any failure
get_recommendations(resp) ==
    LET lst == TagTracks(resp)
    IN  IF lst = Absent THEN Ok(JArr(<<>>))
        ELSE IF \E i \in DOMAIN lst.v : ~In("name", lst.v[i]) THEN Ok(JArr(<<>>))
        ELSE Ok(JArr([i \in DOMAIN lst.v |-> lst.v[i].v["name"]]))

\* get_mood_songs: [f"{track['name']} - {track['artist']['name']}" ...]
get_mood_songs(resp) ==
    LET lst == TagTracks(resp)
        bad(tr) == \/ ~In("name", tr)
                   \/ ~In("artist", tr)
                   \/ tr.v["artist"].t # "object"
                   \/ ~In("name", tr.v["artist"])
    IN  IF lst = Absent THEN Ok(JArr(<<>>))
        ELSE IF \E i \in DOMAIN lst.v : bad(lst.v[i]) THEN Ok(JArr(<<>>))
        ELSE Ok(JArr([i \in DOMAIN lst.v |->
                        JStr(PyStr(lst.v[i].v["name"]) \o " - "
                               \o PyStr(lst.v[i].v["artist"].v["name"]))]))

\* What adapter operation o returns when its request receives resp
AdapterResult(o, resp) ==
    CASE o = "fetch_json" -> fetch_json(resp)
      [] o = "get_lyrics" -> get_lyrics(resp)
      [] o = "search_track" -> search_track(resp)
      [] o = "get_trending" -> get_trending(resp)
      [] o = "get_recommendations" -> get_recommendations(resp)
      [] o = "get_mood_songs" -> get_mood_songs(resp)

----------------------------------------------------------------------------
(* The responses a provider can give to each adapter's request *)

\* Sequences over S of length 0..n
SeqsUpTo(S, n) == UNION {[1..k -> S] : k \in 0..n}

\* Parsed bodies that are not JSON objects, and the undecodable body
NonObjectBodies ==
    {Malformed, PyNone, JBool(TRUE), JBool(FALSE), JNum(0), JNum(1), JArr(<<>>),
     JArr(<<JNum(1)>>), JArr(<<JStr("lyrics")>>), JArr(<<JStr("error")>>)}

LyricsFieldValues ==
    {Absent, PyNone, JStr(""), JStr("la la la"), JStr("No lyrics found"), JNum(5)}

LyricsBodies ==
    {Build(c) : c \in [{"lyrics", "error"} -> LyricsFieldValues]} \cup NonObjectBodies

Named(n) == Build([name |-> JStr(n)])

TitleOpts == {Absent, PyNone, JStr("Hello")}
CreditOpts == {Absent, JArr(<<>>), JArr(<<EmptyObj>>), JArr(<<Named("Adele"), Named("Guest")>>)}
ReleaseOpts ==
    {Absent, JArr(<<>>), JArr(<<EmptyObj>>),
     JArr(<<Build([title |-> JStr("25")])>>),
     JArr(<<Build([title |-> JStr("25"), date |-> JStr("2015-11-20")])>>)}
LengthOpts == {Absent, PyNone, JNum(999), JNum(215000), JNum(215999)}
IdOpts == {Absent, JStr("r1")}
TagOpts ==
    {Absent, JArr(<<Named("pop"), Named("soul"), Named("uk")>>),
     JArr(<<Named("pop"), Named("soul"), Named("uk"), Named("x")>>),
     JArr(<<Named("pop"), EmptyObj>>),
     JArr(<<Named("pop"), Named("soul"), Named("uk"), EmptyObj>>)}

Recordings ==
    {Build([id |-> i, title |-> ti, length |-> l, tags |-> tg]
             @@ ("artist-credit" :> c) @@ ("releases" :> r)) :
        i \in IdOpts, ti \in TitleOpts, l \in LengthOpts, tg \in TagOpts,
        c \in CreditOpts, r \in ReleaseOpts}

TrackBodies ==
    {Build([recordings |-> x]) : x \in {Absent, PyNone, JArr(<<>>)}}
      \cup {Build([recordings |-> JArr(<<rec>>)]) : rec \in Recordings}
      \cup {Build([recordings |-> JArr(<<Named("r0"), Named("r1")>>)])}
      \cup NonObjectBodies

TrendingBodies ==
    {Build([tracks |-> x]) : x \in {Absent, PyNone, EmptyObj, Build([data |-> PyNone])}}
      \cup {Build([tracks |-> Build([data |-> JArr([i \in 1..n |-> JNum(i)])])]) :
              n \in {0, 1, MaxTrending, MaxTrending + 1, MaxTrending + 2}}
      \cup NonObjectBodies

TagTrackItems ==
    {EmptyObj, Named("Song A"),
     Build([name |-> JStr("Song A"), artist |-> Named("Artist A")]),
     Build([name |-> JStr("Song B"), artist |-> EmptyObj]),
     Build([name |-> JStr("Song B"), artist |-> Named("Artist B")])}

TagBodies ==
    {Build([tracks |-> x]) : x \in {Absent, PyNone, EmptyObj, Build([track |-> PyNone])}}
      \cup {Build([tracks |-> Build([track |-> JArr(l)])]) : l \in SeqsUpTo(TagTrackItems, 2)}
      \cup NonObjectBodies

Bodies(o) ==
    CASE o \in {"fetch_json", "get_lyrics"} -> LyricsBodies
      [] o = "search_track" -> TrackBodies
      [] o = "get_trending" -> TrendingBodies
      [] o \in {"get_recommendations", "get_mood_songs"} -> TagBodies

\* Every response: a timeout, a transport failure, a non-200 status, a 200
Responses(o) ==
    {Timeout, ConnError}
      \cup {Http(st, b) : st \in {404, 500}, b \in {Malformed, Named("not found")}}
      \cup {Http(HttpOk, b) : b \in Bodies(o)}

\* One well-formed body per adapter
SampleBody(o) ==
    CASE o \in {"fetch_json", "get_lyrics"} -> Build([lyrics |-> JStr("la la la")])
      [] o = "search_track" ->
           Build([recordings |-> JArr(<<Build([id |-> JStr("r1"), title |-> JStr("Hello")])>>)])
      [] o = "get_trending" -> Build([tracks |-> Build([data |-> JArr(<<JNum(1)>>)])])
      [] o \in {"get_recommendations", "get_mood_songs"} ->
           Build([tracks |-> Build([track |->
              JArr(<<Build([name |-> JStr("Song A"), artist |-> Named("Artist A")])>>)])])

\* The responses drawn when several commands run concurrently
SampleResponses(o) == {Timeout, Http(HttpOk, SampleBody(o))}

----------------------------------------------------------------------------
(* Python string operations used by lyrics_command *)

Whitespace == {" "}

\* s.find(sub) + 1: the position of the first occurrence of sub in s, 0 if none
IndexOf(s, sub) ==
    LET at == {i \in 1..(Len(s) - Len(sub) + 1) : SubSeq(s, i, i + Len(sub) - 1) = sub}
    IN  IF at = {} THEN 0 ELSE CHOOSE i \in at : \A j \in at : i <= j

\* `sub in s`
contains(s, sub) == IndexOf(s, sub) # 0

\* s.split(sep, 1)
split_once(s, sep) ==
    LET i == IndexOf(s, sep)
    IN  IF i = 0 THEN <<s>>
        ELSE <<SubSeq(s, 1, i - 1), SubSeq(s, i + Len(sep), Len(s))>>

\* s.split(sep)
RECURSIVE split(_, _)
split(s, sep) ==
    LET i == IndexOf(s, sep)
    IN  IF i = 0 THEN <<s>>
        ELSE <<SubSeq(s, 1, i - 1)>> \o split(SubSeq(s, i + Len(sep), Len(s)), sep)

RECURSIVE lstrip(_)
lstrip(s) == IF Len(s) > 0 /\ Head(s) \in Whitespace THEN lstrip(Tail(s)) ELSE s

RECURSIVE rstrip(_)
rstrip(s) ==
    IF Len(s) > 0 /\ SubSeq(s, Len(s), Len(s)) \in Whitespace
    THEN rstrip(SubSeq(s, 1, Len(s) - 1))
    ELSE s

\* s.strip()
strip(s) == rstrip(lstrip(s))

\* s[i:j] for 0 <= i <= j
Slice(s, i, j) == SubSeq(s, i + 1, Min(j, Len(s)))

\* list(range(0, stop, step))
Range0(stop, step) == [k \in 1..((stop + step - 1) \div step) |-> (k - 1) * step]

----------------------------------------------------------------------------
(* lyrics_command: query parsing and chunking *)

ChunkSize == 1900
LyricsCap == 5700

\* Mutant: " - " is tried before " by "
separators_dash_first == <<" - ", " by ", " | ">>

separators == <<" by ", " - ", " | ">>

\* The for loop over separators: artist and title stay None (found = FALSE)
\* when no separator occurs in the query
split_query(q) ==
    LET hits == {k \in DOMAIN separators : contains(q, separators[k])}
        k == CHOOSE h \in hits : \A j \in hits : h <= j
        parts == split_once(q, separators[k])
    IN  IF hits = {}
        THEN [found |-> FALSE, title |-> "", artist |-> ""]
        ELSE [found |-> TRUE, title |-> strip(parts[1]), artist |-> strip(parts[2])]

\* artist.split(' ft.')[0].split(' feat.')[0].strip()
clean_artist(a) == strip(split(split(a, " ft.")[1], " feat.")[1])

\* title.split(' (')[0].strip()
clean_title(ti) == strip(split(ti, " (")[1])

\* Mutant: slices at every multiple of 1900 up to len(lyrics), without the cap
chunks_uncapped(l) ==
    LET starts == Range0(Len(l), ChunkSize)
    IN  [k \in DOMAIN starts |-> Slice(l, starts[k], starts[k] + ChunkSize)]

\* [lyrics[i:i+1900] for i in range(0, min(len(lyrics), 5700), 1900)]
chunks_of(l) ==
    LET starts == Range0(Min(Len(l), LyricsCap), ChunkSize)
    IN  [k \in DOMAIN starts |-> Slice(l, starts[k], starts[k] + ChunkSize)]

\* The parameters of MusicAPI.search_track after self
search_track_params == <<"artist", "title">>

Msg(k, x) == [kind |-> k, text |-> x]

----------------------------------------------------------------------------
(* Session manager: MusicAPI.__init__, create_session, close_session *)

NoSession == 0

AdapterOps ==
    {"fetch_json", "get_lyrics", "search_track", "get_trending", "get_recommendations",
     "get_mood_songs"}

\* "none" / "closed" / "open": what `self.session` is, as session.get sees it
SessionState(s, p) ==
    IF s = NoSession THEN "none" ELSE IF p[s] THEN "closed" ELSE "open"

\* Pools that are allocated and not closed
LivePools == {i \in 1..Len(pools) : ~pools[i]}

\* Mutant: allocates on every call, whatever the current session is
create_session_always(s, p) ==
    [session |-> Len(p) + 1, pools |-> Append(p, FALSE)]

\* Mutant: forgets `or self.session.closed`
create_session_no_reopen(s, p) ==
    IF s = NoSession
    THEN [session |-> Len(p) + 1, pools |-> Append(p, FALSE)]
    ELSE [session |-> s, pools |-> p]

\* if not self.session or self.session.closed: self.session = ClientSession(...)
create_session(s, p) ==
    IF s = NoSession \/ p[s]
    THEN [session |-> Len(p) + 1, pools |-> Append(p, FALSE)]
    ELSE [session |-> s, pools |-> p]

\* if self.session and not self.session.closed: await self.session.close()
close_session(s, p) ==
    IF s # NoSession /\ ~p[s]
    THEN [p EXCEPT ![s] = TRUE]
    ELSE p

LastfmOps == {"get_recommendations", "get_mood_songs"}
ListOps == {"get_trending", "get_recommendations", "get_mood_songs"}

\* What the adapter's except clause (or final return) makes of an exception
FailureValue(o) == IF o \in ListOps THEN JArr(<<>>) ELSE PyNone

NoAnswer == [kind |-> "none", status |-> 0, body |-> Malformed]
NoResult == [exc |-> "pending", val |-> PyNone]

Init ==
    /\ session = NoSession
    /\ pools = <<>>
    /\ apiKey \in BOOLEAN
    /\ pc = [t \in Tasks |-> "idle"]
    /\ op = [t \in Tasks |-> "none"]
    /\ sessAtGet = [t \in Tasks |-> "none"]
    /\ reqPool = [t \in Tasks |-> NoSession]
    /\ answer = [t \in Tasks |-> NoAnswer]
    /\ outcome = [t \in Tasks |-> NoResult]
    /\ cpc = "idle"
    /\ query = ""
    /\ artist = ""
    /\ title = ""
    /\ lyrics = ""
    /\ chunks = <<>>
    /\ sent = <<>>

\* An adapter coroutine runs from its entry to its first suspension:
\* `await self.create_session()` (no suspension inside), then
\* `self.session.get(...)`.  The GET refuses a closed session (RuntimeError)
\* and a params value of None, which is what os.getenv gives for an unset
\* LASTFM_API_KEY (TypeError); both are raised inside the adapter's try
\* block.  Otherwise the request is sent and the coroutine is suspended.
AdapterCall(t, o, answers) ==
    /\ pc[t] = "idle"
    /\ \E a \in answers :
       LET cs == create_session(session, pools)
           st == SessionState(cs.session, cs.pools)
           issued == st = "open" /\ ~(o \in LastfmOps /\ ~apiKey)
       IN  /\ Len(cs.pools) <= MaxPools
           /\ session' = cs.session
           /\ pools' = cs.pools
           /\ sessAtGet' = [sessAtGet EXCEPT ![t] = st]
           /\ op' = [op EXCEPT ![t] = o]
           /\ pc' = [pc EXCEPT ![t] = IF issued THEN "inflight" ELSE "done"]
           /\ reqPool' = [reqPool EXCEPT ![t] = IF issued THEN cs.session ELSE NoSession]
           /\ answer' = [answer EXCEPT ![t] = IF issued THEN a ELSE NoAnswer]
           /\ outcome' = [outcome EXCEPT ![t] =
                             IF issued THEN NoResult ELSE Ok(FailureValue(o))]
    /\ UNCHANGED <<apiKey, cmdVars>>

\* The in-flight request ends and the adapter computes its result: from the
\* provider's response or the request's own 10 s timeout, or, when the pool
\* that carries the request has been closed meanwhile (ClientSession.close
\* closes the connector and with it every acquired connection), from a
\* connection error.
RequestEnds(t) ==
    /\ pc[t] = "inflight"
    /\ outcome' = [outcome EXCEPT ![t] =
                      AdapterResult(op[t], IF pools[reqPool[t]] THEN ConnError
                                                                ELSE answer[t])]
    /\ pc' = [pc EXCEPT ![t] = "done"]
    /\ reqPool' = [reqPool EXCEPT ![t] = NoSession]
    /\ UNCHANGED <<session, pools, apiKey, op, sessAtGet, answer, cmdVars>>

\* The adapter has handed its result to the command; the task is free again.
AdapterReturn(t) ==
    /\ pc[t] = "done"
    /\ pc' = [pc EXCEPT ![t] = "idle"]
    /\ op' = [op EXCEPT ![t] = "none"]
    /\ sessAtGet' = [sessAtGet EXCEPT ![t] = "none"]
    /\ reqPool' = [reqPool EXCEPT ![t] = NoSession]
    /\ answer' = [answer EXCEPT ![t] = NoAnswer]
    /\ outcome' = [outcome EXCEPT ![t] = NoResult]
    /\ UNCHANGED <<session, pools, apiKey, cmdVars>>

\* @bot.event on_disconnect: await music_api.close_session()
on_disconnect ==
    /\ pools' = close_session(session, pools)
    /\ UNCHANGED <<session, apiKey, pc, op, sessAtGet, reqPool, answer, outcome, cmdVars>>

\* Commands run concurrently against the shared pool; disconnects at any time
Next ==
    \/ \E t \in Tasks, o \in AdapterOps : AdapterCall(t, o, SampleResponses(o))
    \/ \E t \in Tasks : RequestEnds(t)
    \/ \E t \in Tasks : AdapterReturn(t)
    \/ on_disconnect

Spec == Init /\ [][Next]_vars

----------------------------------------------------------------------------
(* The lyrics command *)

\* @bot.command lyrics: ctx.send("Searching lyrics for ...")
lyrics_command(queries) ==
    /\ cpc = "idle"
    /\ cpc' = "searching"
    /\ \E q \in queries :
          /\ query' = q
          /\ sent' = Append(sent, Msg("searching", q))
    /\ UNCHANGED <<artist, title, lyrics, chunks>>
    /\ UNCHANGED <<session, pools, apiKey, pc, op, sessAtGet, reqPool, answer, outcome>>

\* Lines 174-198, from the separators loop to the call of get_lyrics.  The
\* fallback `music_api.search_track(query)` passes one argument for the two
\* parameters artist and title: Python raises TypeError at the call, so the
\* lines that use track_info run only in the ELSE branch below.
lyrics_parse ==
    /\ cpc = "searching"
    /\ LET p == split_query(query)
           args == <<query>>
           cs == create_session(session, pools)
       IN  IF ~p.found \/ p.artist = ""
           THEN /\ title' = p.title
                /\ artist' = p.artist
                /\ UNCHANGED <<session, pools>>
                /\ IF Len(args) # Len(search_track_params)
                   THEN /\ cpc' = "raised"
                        /\ sent' = sent
                   ELSE /\ cpc' = "done"
                        /\ sent' = Append(sent, Msg("usage", ""))
           ELSE /\ artist' = clean_artist(p.artist)
                /\ title' = clean_title(p.title)
                /\ cpc' = "get_lyrics"
                /\ sent' = sent
                /\ session' = cs.session
                /\ pools' = cs.pools
    /\ UNCHANGED <<query, lyrics, chunks>>
    /\ UNCHANGED <<apiKey, pc, op, sessAtGet, reqPool, answer, outcome>>

\* get_lyrics returns (or raises); lines 199-203
lyrics_result(responses) ==
    /\ cpc = "get_lyrics"
    /\ \E resp \in responses :
       LET r == get_lyrics(resp)
       IN  IF r.exc # "none"
           THEN /\ cpc' = "raised"
                /\ UNCHANGED <<lyrics, chunks, sent>>
           ELSE IF ~Truthy(r.val)
           THEN /\ cpc' = "done"
                /\ sent' = Append(sent, Msg("not_found", title \o " by " \o artist))
                /\ UNCHANGED <<lyrics, chunks>>
           ELSE IF r.val.t # "string"
           THEN /\ cpc' = "raised"
                /\ UNCHANGED <<lyrics, chunks, sent>>
           ELSE /\ cpc' = "sending"
                /\ lyrics' = r.val.v
                /\ chunks' = chunks_of(r.val.v)
                /\ sent' = sent
    /\ UNCHANGED <<query, artist, title>>
    /\ UNCHANGED <<session, pools, apiKey, pc, op, sessAtGet, reqPool, answer, outcome>>

\* for chunk in chunks: await ctx.send(f"```\n{chunk}\n```")
lyrics_send_chunk ==
    /\ cpc = "sending"
    /\ chunks # <<>>
    /\ sent' = Append(sent, Msg("chunk", Head(chunks)))
    /\ chunks' = Tail(chunks)
    /\ UNCHANGED <<cpc, query, artist, title, lyrics>>
    /\ UNCHANGED <<session, pools, apiKey, pc, op, sessAtGet, reqPool, answer, outcome>>

\* if len(lyrics) > 5700: await ctx.send("Lyrics truncated due to length...")
lyrics_finish ==
    /\ cpc = "sending"
    /\ chunks = <<>>
    /\ cpc' = "done"
    /\ sent' = IF Len(lyrics) > LyricsCap THEN Append(sent, Msg("truncated", "")) ELSE sent
    /\ UNCHANGED <<query, artist, title, lyrics, chunks>>
    /\ UNCHANGED <<session, pools, apiKey, pc, op, sessAtGet, reqPool, answer, outcome>>

\* Queries: every concatenation of at most MaxTokens tokens, and the examples
Tokens == {"a", " ", " by ", " - ", " | ", " ft.", " feat.", " ("}

RECURSIVE Concat(_)
Concat(ts) == IF ts = <<>> THEN "" ELSE Head(ts) \o Concat(Tail(ts))

ExampleQueries ==
    {"Shape of You by Ed Sheeran", "Anti-Hero by Taylor Swift feat. X", "Hello - Adele",
     "Hello (Live) - Adele ft. Guest", "Stand - By Me by Ben E. King", "Hello | Adele"}

Queries == {Concat(ts) : ts \in SeqsUpTo(Tokens, MaxTokens)} \cup ExampleQueries

ShortLyricsResponses ==
    {Timeout, Http(HttpOk, JNum(1)),
     Http(HttpOk, Build([lyrics |-> JStr("la la la")])),
     Http(HttpOk, Build([error |-> JStr("No lyrics found")]))}

\* A lyrics text of n characters
Verse == "la di da dum "

\* s repeated until it has at least n characters
RECURSIVE Repeated(_, _)
Repeated(s, n) == IF Len(s) >= n THEN s ELSE Repeated(s \o s, n)

Text(n) == SubSeq(Repeated(Verse, n), 1, n)

\* Lengths within Window of a multiple of the chunk size, up to past the cap
LyricsLengths ==
    {n \in 1..(LyricsCap + Window) :
        \E k \in 0..(LyricsCap \div ChunkSize) :
            n - k * ChunkSize \in (0 - Window)..Window}

LongLyricsResponses == {Http(HttpOk, Build([lyrics |-> JStr(Text(n))])) : n \in LyricsLengths}

\* The lyrics command over every query
NextLyrics ==
    \/ lyrics_command(Queries)
    \/ lyrics_parse
    \/ lyrics_result(ShortLyricsResponses)
    \/ lyrics_send_chunk
    \/ lyrics_finish

SpecLyrics == Init /\ [][NextLyrics]_vars

\* The lyrics command over lyrics of every length around the chunk boundaries
NextChunks ==
    \/ lyrics_command(ExampleQueries)
    \/ lyrics_parse
    \/ lyrics_result(LongLyricsResponses)
    \/ lyrics_send_chunk
    \/ lyrics_finish

SpecChunks == Init /\ [][NextChunks]_vars

\* One adapter call at a time, over every response its provider can give
NextAdapter ==
    \/ \E o \in AdapterOps : AdapterCall(1, o, Responses(o))
    \/ RequestEnds(1)
    \/ AdapterReturn(1)

SpecAdapter == Init /\ [][NextAdapter]_vars

----------------------------------------------------------------------------
(* Claims on the session manager and on concurrent commands (under Spec) *)

CallStep == \E t \in Tasks : pc[t] = "idle" /\ pc'[t] # "idle"

\* C1: at most one connection pool is live in every reachable state; a step
\* allocates a pool only when it is a create_session call made with no session
\* or a closed one, and then exactly one; a create_session call made while
\* the session is open allocates nothing and keeps the session; a step that
\* is no create_session call (close_session included) changes nothing of the
\* session when it is never-opened or already closed, and otherwise can only
\* close the current pool.
C1_AtMostOneLivePool ==
    /\ [](Cardinality(LivePools) <= 1)
    /\ [][/\ Len(pools') > Len(pools) =>
                /\ CallStep
                /\ SessionState(session, pools) # "open"
          /\ (CallStep /\ SessionState(session, pools) = "open") =>
                /\ pools' = pools
                /\ session' = session
          /\ (CallStep /\ SessionState(session, pools) # "open") =>
                /\ pools' = Append(pools, FALSE)
                /\ session' = Len(pools')
          /\ (~CallStep /\ SessionState(session, pools) # "open") =>
                /\ pools' = pools
                /\ session' = session
          /\ (~CallStep /\ SessionState(session, pools) = "open") =>
                /\ pools' \in {pools, [pools EXCEPT ![session] = TRUE]}
                /\ session' = session]_vars

\* Two create_session calls since the last close, one allocation: every
\* task has a request in flight on the one pool that was re-created after a
\* close.
C1_Witness ==
    /\ pools = <<TRUE, FALSE>>
    /\ session = 2
    /\ \A t \in Tasks : pc[t] = "inflight" /\ reqPool[t] = 2

\* C2: whenever an adapter operation issues its GET, self.session exists and
\* is not closed, and a request that is sent travels on it; when the session
\* was closed (or absent) before the call, the call has created a fresh pool
\* first.
C2_GetOnOpenSession ==
    /\ [](\A t \in Tasks : pc[t] # "idle" => sessAtGet[t] = "open")
    /\ [][CallStep =>
            /\ SessionState(session', pools') = "open"
            /\ \A t \in Tasks : pc[t] = "idle" /\ pc'[t] # "idle" =>
                  /\ sessAtGet'[t] = "open"
                  /\ pc'[t] = "inflight" => reqPool'[t] = session'
            /\ SessionState(session, pools) # "open" =>
                  /\ session' = Len(pools) + 1
                  /\ session' \notin DOMAIN pools]_vars

\* A request is in flight on pool 2, created by the call that followed the
\* close of pool 1 by on_disconnect.
C2_Witness ==
    /\ pools = <<TRUE, FALSE>>
    /\ session = 2
    /\ \E t \in Tasks : pc[t] = "inflight" /\ reqPool[t] = 2 /\ sessAtGet[t] = "open"

\* C4: a request that was sent ends with what its own provider did (its
\* response or its own timeout): the adapter returns what it computes from
\* that answer, whatever other commands and disconnect events did while the
\* request was in flight.
C4_InFlightIndependent ==
    \A t \in Tasks :
        (pc[t] = "done" /\ answer[t] # NoAnswer) =>
            outcome[t] = AdapterResult(op[t], answer[t])

----------------------------------------------------------------------------
(* Claims on the adapters' results (under SpecAdapter, task 1) *)

\* The JSON object the provider sent with status 200, or Absent
C_ObjectBody(resp) ==
    IF resp.kind = "http" /\ resp.status = HttpOk /\ resp.body.t = "object"
    THEN resp.body
    ELSE Absent

\* The call failed before any body was parsed: the request was not sent, or
\* it timed out, the transport failed, the status was not 200, or the body
\* could not be decoded
C_Failed(t) ==
    \/ answer[t] = NoAnswer
    \/ answer[t].kind # "http"
    \/ answer[t].status # HttpOk
    \/ answer[t].body = Malformed

\* C3: no adapter operation raises, whatever the provider answers and whether
\* or not the API key is set; on a failure fetch_json, get_lyrics and
\* search_track return None and the three list adapters return the empty
\* sequence; fetch_json returns a parsed body only for status 200.
C3_NoAdapterRaises ==
    pc[1] = "done" =>
        /\ outcome[1].exc = "none"
        /\ C_Failed(1) => outcome[1] = Ok(FailureValue(op[1]))
        /\ (op[1] = "fetch_json" /\ outcome[1].val # PyNone) =>
              /\ answer[1].status = HttpOk
              /\ outcome[1].val = answer[1].body

\* C9: get_lyrics returns the lyrics field when the body has one, "Error: "
\* followed by the error field when the body has an error field and no lyrics
\* field, and None in every other case (transport failure, status other than
\* 200, body with neither field); it returns nothing else.
C9_LyricsThreeWay ==
    (pc[1] = "done" /\ op[1] = "get_lyrics") =>
        LET body == C_ObjectBody(answer[1])
            has(k) == body # Absent /\ k \in DOMAIN body.v
        IN  outcome[1] =
              IF has("lyrics") THEN Ok(body.v["lyrics"])
              ELSE IF has("error") THEN Ok(JStr("Error: " \o PyStr(body.v["error"])))
              ELSE Ok(PyNone)

\* The first recording of a 200 response, or Absent when the recordings list
\* is missing or empty
C_FirstRecording(resp) ==
    LET body == C_ObjectBody(resp)
    IN  IF body = Absent THEN Absent
        ELSE IF "recordings" \notin DOMAIN body.v THEN Absent
        ELSE IF body.v["recordings"].t # "array" THEN Absent
        ELSE IF body.v["recordings"].v = <<>> THEN Absent
        ELSE body.v["recordings"].v[1]

\* The field k of object d, or Absent when d is Absent or has no such field
C_Field(d, k) == IF d = Absent THEN Absent ELSE IF k \in DOMAIN d.v THEN d.v[k] ELSE Absent

\* The first element of list field k of d, or Absent
C_FirstOf(d, k) ==
    LET l == C_Field(d, k)
    IN  IF l = Absent THEN Absent
        ELSE IF l.t # "array" THEN Absent
        ELSE IF l.v = <<>> THEN Absent
        ELSE l.v[1]

\* x, or sentinel when x is missing
C_OrSentinel(x, sentinel) == IF x \in {Absent, PyNone} THEN JStr(sentinel) ELSE x

\* The TrackRecord the claim describes for recording rec
C_TrackRecord(rec) ==
    LET release == C_FirstOf(rec, "releases")
        date == C_Field(release, "date")
        length == C_Field(rec, "length")
        tags == C_Field(rec, "tags")
        names == IF tags = Absent THEN <<>>
                 ELSE [i \in 1..Min(MaxTags, Len(tags.v)) |-> C_Field(tags.v[i], "name")]
    IN  [title |-> C_OrSentinel(C_Field(rec, "title"), "Unknown Track"),
         artist |-> C_OrSentinel(C_Field(C_FirstOf(rec, "artist-credit"), "name"),
                                 "Unknown Artist"),
         album |-> JStr(C_OrSentinel(C_Field(release, "title"), "Unknown Album").v
                          \o (IF date = Absent THEN "" ELSE " (" \o date.v \o ")")),
         duration |-> JNum(IF length \in {Absent, PyNone} THEN 0
                           ELSE length.v \div MsPerSecond),
         tags |-> JArr(names)]

\* C8: for every HTTP-200 response search_track returns None exactly when the
\* recordings list is missing or empty; otherwise it returns a record built
\* from the first recording, with no null field, the sentinels in place of a
\* missing title, artist credit or release, the release date in parentheses
\* after the album, duration = length // 1000 (0 when absent) and the first
\* at most 3 tag names.
C8_TrackRecordFromFirst ==
    (/\ pc[1] = "done"
     /\ op[1] = "search_track"
     /\ answer[1].kind = "http"
     /\ answer[1].status = HttpOk) =>
        LET rec == C_FirstRecording(answer[1])
            got == outcome[1].val
        IN  /\ outcome[1].exc = "none"
            /\ got = PyNone <=> rec = Absent
            /\ rec # Absent =>
                 /\ got.t = "object"
                 /\ \A k \in DOMAIN C_TrackRecord(rec) : got.v[k] = C_TrackRecord(rec)[k]
                 /\ \A k \in DOMAIN got.v : got.v[k] # PyNone

----------------------------------------------------------------------------
(* Claims on query parsing (under SpecLyrics) *)

\* sub occurs in s at position i
C_OccursAt(s, sub, i) ==
    i + Len(sub) - 1 <= Len(s) /\ SubSeq(s, i, i + Len(sub) - 1) = sub

\* The position of the first occurrence in s of any of subs, 0 when none occurs
C_FirstPos(s, subs) ==
    LET ps == {i \in 1..Len(s) : \E m \in subs : C_OccursAt(s, m, i)}
    IN  IF ps = {} THEN 0 ELSE CHOOSE i \in ps : \A j \in ps : i <= j

\* s without its leading and trailing spaces
C_Trim(s) ==
    LET keep == {i \in 1..Len(s) : SubSeq(s, i, i) # " "}
        lo == CHOOSE i \in keep : \A j \in keep : i <= j
        hi == CHOOSE i \in keep : \A j \in keep : j <= i
    IN  IF keep = {} THEN "" ELSE SubSeq(s, lo, hi)

\* s truncated at the first occurrence of any of subs
C_Before(s, subs) ==
    IF C_FirstPos(s, subs) = 0 THEN s ELSE SubSeq(s, 1, C_FirstPos(s, subs) - 1)

\* The separator the claim selects for q: the first of " by ", " - ", " | "
\* that is present; "" when none is
C_Separator(q) ==
    IF C_FirstPos(q, {" by "}) # 0 THEN " by "
    ELSE IF C_FirstPos(q, {" - "}) # 0 THEN " - "
    ELSE IF C_FirstPos(q, {" | "}) # 0 THEN " | "
    ELSE ""

\* The trimmed parts left and right of the first occurrence of the separator
C_Left(q) == C_Trim(SubSeq(q, 1, C_FirstPos(q, {C_Separator(q)}) - 1))
C_Right(q) ==
    C_Trim(SubSeq(q, C_FirstPos(q, {C_Separator(q)}) + Len(C_Separator(q)), Len(q)))

C_Parsed == cpc \notin {"idle", "searching"}

\* C5: for a query that contains a separator, parsing takes the first of
\* " by ", " - ", " | " that is present, splits at its first occurrence and
\* assigns the trimmed left part to title and the trimmed right part to
\* artist; once an artist is found it is truncated at the first " ft." or
\* " feat." and the title at the first " (", and both are trimmed.
C5_QueryParsing ==
    (C_Parsed /\ C_Separator(query) # "") =>
        /\ C_Right(query) = "" => (artist = "" /\ title = C_Left(query))
        /\ C_Right(query) # "" =>
             /\ artist = C_Trim(C_Before(C_Right(query), {" ft.", " feat."}))
             /\ title = C_Trim(C_Before(C_Left(query), {" ("}))
        /\ query = "Shape of You by Ed Sheeran" =>
             (title = "Shape of You" /\ artist = "Ed Sheeran")
        /\ query = "Anti-Hero by Taylor Swift feat. X" => artist = "Taylor Swift"

\* get_lyrics is being called for "Anti-Hero by Taylor Swift feat. X"
C5_Witness ==
    /\ cpc = "get_lyrics"
    /\ query = "Anti-Hero by Taylor Swift feat. X"
    /\ artist = "Taylor Swift"
    /\ title = "Anti-Hero"

\* C6: for a query with none of the separators the command ends in one of
\* two ways, never in a fault: it sends the usage message and stops, or it
\* goes on with the artist and title of the provider lookup.
C6_NoSeparatorOutcome ==
    (C_Parsed /\ C_Separator(query) = "") =>
        /\ cpc # "raised"
        /\ \/ cpc = "done" /\ sent[Len(sent)].kind = "usage"
           \/ cpc \in {"get_lyrics", "sending", "done"} /\ artist # "" /\ title # ""

----------------------------------------------------------------------------
(* Claim on chunking (under SpecChunks) *)

\* The texts of the chunk messages sent so far, concatenated in send order
RECURSIVE C_SentText(_)
C_SentText(msgs) ==
    IF msgs = <<>> THEN ""
    ELSE (IF Head(msgs).kind = "chunk" THEN Head(msgs).text ELSE "") \o C_SentText(Tail(msgs))

C_Count(msgs, k) == Cardinality({i \in DOMAIN msgs : msgs[i].kind = k})

\* C10: for a non-empty lyrics string of length n the command sends
\* ceil(min(n, 5700) / 1900) chunks, at most 3, each of at most 1900
\* characters, whose concatenation is the first min(n, 5700) characters of
\* the lyrics; the truncation notice follows the chunks iff n > 5700.
C10_Chunking ==
    (cpc \in {"sending", "done"} /\ lyrics # "") =>
        LET n == Len(lyrics)
            m == IF n < 5700 THEN n ELSE 5700
            total == (m + 1899) \div 1900
            nsent == C_Count(sent, "chunk")
        IN  /\ total <= 3
            /\ nsent + Len(chunks) = total
            /\ \A i \in DOMAIN sent : sent[i].kind = "chunk" => Len(sent[i].text) <= 1900
            /\ \A i \in DOMAIN chunks : Len(chunks[i]) <= 1900
            /\ C_SentText(sent) \o Concat(chunks) = SubSeq(lyrics, 1, m)
            /\ \A i \in 2..(nsent + 1) : sent[i].kind = "chunk"
            /\ cpc = "sending" => C_Count(sent, "truncated") = 0
            /\ cpc = "done" =>
                 /\ nsent = total
                 /\ Len(sent) = 1 + total + (IF n > 5700 THEN 1 ELSE 0)
                 /\ n > 5700 <=> sent[Len(sent)].kind = "truncated"

\* A lyrics text longer than the cap has been sent: 3 chunks, then the notice
C10_Witness ==
    /\ cpc = "done"
    /\ Len(lyrics) > LyricsCap
    /\ C_Count(sent, "chunk") = 3
    /\ sent[Len(sent)].kind = "truncated"

====
